---- MODULE Spec2Model ----
(***************************************************************************)
(* A model of pikepdf's PdfMetadata (src/src/pikepdf/models/metadata.py):  *)
(* the XMP store kept as an ElementTree, the edit transaction              *)
(* (__enter__/__exit__), the DocumentInfo import and export, and the       *)
(* pdfmark date codec.                                                     *)
(*                                                                         *)
(* Python strings are sequences of one-character strings; the token NUL    *)
(* stands for the character '\x00'.  Python's None, where a string may     *)
(* stand, is the one-element sequence None.  A Python value handed to or   *)
(* returned by the mapping interface is a record [kind, val] with kind     *)
(* "str", "list", "set", "none" or "other" (any other Python type).        *)
(***************************************************************************)
EXTENDS Integers, Sequences, FiniteSets, TLC

VARIABLES
    xmp,        \* self._xmp: [loaded |-> FALSE] is None, else the parsed tree
    updating,   \* self._updating
    mark,       \* self.mark
    sync_docinfo, \* self.sync_docinfo
    stream,     \* self._pdf.Root.Metadata: the metadata stream of the document
    docinfo,    \* self._pdf.docinfo: legacy key -> string, or None when absent
    outcome,    \* the last call on the session: what was called and how it ended
    snap,       \* the document and the store as they were when the scope was entered
    nops,       \* number of set/delete/import calls made so far
    ntxn,       \* number of transaction scopes entered so far
    codec       \* the date codec's last input and results

vars == <<xmp, updating, mark, sync_docinfo, stream, docinfo, outcome, snap,
          nops, ntxn, codec>>

-----------------------------------------------------------------------------
(* Bounds of the model *)

MaxOps == 2
MaxTxn == 2
MaxDepth == 2

-----------------------------------------------------------------------------
(* Strings and Python values *)

NUL == "NUL"
None == <<"None">>
Whitespace == {" ", "\t", "\n"}

PyStr(s) == [kind |-> "str", val |-> s]
PyList(l) == [kind |-> "list", val |-> l]
PySet(s) == [kind |-> "set", val |-> s]
PyNone == [kind |-> "none", val |-> <<>>]
PyOther == [kind |-> "other", val |-> <<>>]

\* the value of an expression that may be a string or None
PyText(t) == IF t = None THEN PyNone ELSE PyStr(t)

\* Python truth value of a value
Truthy(v) ==
    CASE v.kind = "str" -> v.val # <<>>
      [] v.kind = "list" -> v.val # <<>>
      [] v.kind = "set" -> v.val # {}
      [] v.kind = "none" -> FALSE
      [] OTHER -> TRUE

\* str.replace(c, ''): every occurrence of the character c removed
RECURSIVE RemoveChar(_, _)
RemoveChar(s, c) ==
    IF s = <<>> THEN <<>>
    ELSE IF Head(s) = c THEN RemoveChar(Tail(s), c)
    ELSE <<Head(s)>> \o RemoveChar(Tail(s), c)

\* str.strip(): leading and trailing whitespace removed
RECURSIVE LStrip(_)
LStrip(s) ==
    IF s # <<>> /\ Head(s) \in Whitespace THEN LStrip(Tail(s)) ELSE s

RECURSIVE RStrip(_)
RStrip(s) ==
    IF s # <<>> /\ s[Len(s)] \in Whitespace
    THEN RStrip(SubSeq(s, 1, Len(s) - 1)) ELSE s

Strip(s) == RStrip(LStrip(s))

\* sep.join(l) for a sequence l of strings
RECURSIVE Join(_, _)
Join(sep, l) ==
    IF l = <<>> THEN <<>>
    ELSE IF Len(l) = 1 THEN l[1]
    ELSE l[1] \o sep \o Join(sep, Tail(l))

-----------------------------------------------------------------------------
(* Namespaces and names *)

XMP_NS_DC == "http://purl.org/dc/elements/1.1/"
XMP_NS_PDF == "http://ns.adobe.com/pdf/1.3/"
XMP_NS_PDFA_ID == "http://www.aiim.org/pdfa/ns/id/"
XMP_NS_PDFX_ID == "http://www.npes.org/pdfx/ns/id/"
XMP_NS_RDF == "http://www.w3.org/1999/02/22-rdf-syntax-ns#"
XMP_NS_XMP == "http://ns.adobe.com/xap/1.0/"
XMP_NS_XMP_MM == "http://ns.adobe.com/xap/1.0/mm/"

DEFAULT_NAMESPACES == <<
    <<"adobe:ns:meta/", "x">>,
    <<XMP_NS_DC, "dc">>,
    <<XMP_NS_PDF, "pdf">>,
    <<XMP_NS_PDFA_ID, "pdfaid">>,
    <<XMP_NS_RDF, "rdf">>,
    <<XMP_NS_XMP, "xmp">>,
    <<XMP_NS_XMP_MM, "xapMM">> >>

\* NS = {prefix: uri}: the prefixes it knows, and the lookup
NS_has(prefix) == \E i \in DOMAIN DEFAULT_NAMESPACES : DEFAULT_NAMESPACES[i][2] = prefix
NS(prefix) ==
    DEFAULT_NAMESPACES[CHOOSE i \in DOMAIN DEFAULT_NAMESPACES :
                           DEFAULT_NAMESPACES[i][2] = prefix][1]

\* xml.etree.ElementTree.QName(uri, tag), the text "{uri}tag"
QName(uri, tag) == [uri |-> uri, tag |-> tag]

\* The names a caller may pass as a key:
\*   a QName object, the string 'prefix:tag', the string '{uri}tag',
\*   the empty string, a string with no colon, an object that is no string
KeyQName(uri, tag) == [form |-> "QName", a |-> uri, b |-> tag]
KeyShort(prefix, tag) == [form |-> "prefixed", a |-> prefix, b |-> tag]
KeyBraced(uri, tag) == [form |-> "braced", a |-> uri, b |-> tag]
KeyEmpty == [form |-> "empty", a |-> "", b |-> ""]
KeyNoColon(tag) == [form |-> "nocolon", a |-> "", b |-> tag]
KeyNotStr == [form |-> "notstr", a |-> "", b |-> ""]

EmptyName == QName("", "")

\* PdfMetadata._qname: [exc, q]
_qname(name) ==
    CASE name.form = "QName" -> [exc |-> "none", q |-> QName(name.a, name.b)]
      [] name.form = "notstr" -> [exc |-> "TypeError", q |-> EmptyName]
      [] name.form = "empty" -> [exc |-> "none", q |-> EmptyName]
      [] name.form = "braced" -> [exc |-> "none", q |-> QName(name.a, name.b)]
      [] name.form = "nocolon" -> [exc |-> "ValueError", q |-> EmptyName]
      [] OTHER ->
            IF NS_has(name.a)
            THEN [exc |-> "none", q |-> QName(NS(name.a), name.b)]
            ELSE [exc |-> "KeyError", q |-> EmptyName]

-----------------------------------------------------------------------------
(* The XMP tree.  rdf is the sequence of the rdf:Description nodes with     *)
(* rdf:about="" under rdf:RDF, in document order.  A Description is         *)
(* [attrib, children]: attrib the sequence of its property attributes       *)
(* [key, value] (rdf:about left out), children the sequence of its property *)
(* elements [tag, text, children].  A property element's children are the   *)
(* containers [tag, items], items being the texts of the rdf:li children.   *)

Description(attrib, children) == [attrib |-> attrib, children |-> children]
Element(tag, text, children) == [tag |-> tag, text |-> text, children |-> children]
Container(local, items) == [tag |-> QName(XMP_NS_RDF, local), items |-> items]

\* the positions 1..Len(s) of a sequence, in order
Indices(s) == [i \in 1..Len(s) |-> i]

\* Element.find('rdf:<local>'): the position of the first such child, 0 if none
Find(node, local) ==
    LET hits == {i \in DOMAIN node.children :
                    node.children[i].tag = QName(XMP_NS_RDF, local)}
    IN IF hits = {} THEN 0 ELSE CHOOSE i \in hits : \A j \in hits : i <= j

\* "if items": find() returned an element and the element has children
HasItems(node, i) == i # 0 /\ node.children[i].items # <<>>

\* PdfMetadata._get_subelements
_get_subelements(node) ==
    LET alt == Find(node, "Alt")
        bag == Find(node, "Bag")
        seq == Find(node, "Seq")
    IN IF HasItems(node, alt) THEN PyText(node.children[alt].items[1])
       ELSE IF HasItems(node, bag)
            THEN PySet({node.children[bag].items[i] :
                            i \in DOMAIN node.children[bag].items})
       ELSE IF HasItems(node, seq) THEN PyList(node.children[seq].items)
       ELSE PyStr(<<>>)

\* the value _get_elements yields for a matching element node
NodeValue(node) ==
    IF node.text # None /\ node.text # <<>> /\ Strip(node.text) # <<>>
    THEN PyStr(node.text)
    ELSE _get_subelements(node)

\* position of the attribute q of a Description, 0 if it has none
AttrIndex(desc, q) ==
    LET hits == {i \in DOMAIN desc.attrib : desc.attrib[i].key = q}
    IN IF hits = {} THEN 0 ELSE CHOOSE i \in hits : TRUE

\* one Description searched for its elements before its attribute
DescMatchesElementsFirst(desc, di, q) ==
    LET a == AttrIndex(desc, q)
        IsQ(j) == desc.children[j].tag = q
        elems == SelectSeq(Indices(desc.children), IsQ)
    IN [k \in 1..Len(elems) |->
           [desc |-> di, elem |-> elems[k], attrib |-> FALSE,
            value |-> NodeValue(desc.children[elems[k]])]]
       \o (IF a # 0
           THEN << [desc |-> di, elem |-> 0, attrib |-> TRUE,
                    value |-> PyStr(desc.attrib[a].value)] >>
           ELSE << >>)

\* what one Description yields for the name q: its attribute q, then its
\* elements tagged q.  A match is [desc, elem, attrib, value]: elem = 0 and
\* attrib = TRUE for (rdfdesc, qname, value, rdf), else (node, None, value, rdfdesc)
DescMatches(desc, di, q) ==
    LET a == AttrIndex(desc, q)
        IsQ(j) == desc.children[j].tag = q
        elems == SelectSeq(Indices(desc.children), IsQ)
    IN (IF a # 0
        THEN << [desc |-> di, elem |-> 0, attrib |-> TRUE,
                 value |-> PyStr(desc.attrib[a].value)] >>
        ELSE << >>)
       \o [k \in 1..Len(elems) |->
              [desc |-> di, elem |-> elems[k], attrib |-> FALSE,
               value |-> NodeValue(desc.children[elems[k]])]]

RECURSIVE AllMatches(_, _, _)
AllMatches(rdf, di, q) ==
    IF di > Len(rdf) THEN << >>
    ELSE DescMatches(rdf[di], di, q) \o AllMatches(rdf, di + 1, q)

\* PdfMetadata._get_elements(name) for a property name: [exc, items], exc the
\* error _qname raises, items what the generator yields, in order
_get_elements(rdf, name) ==
    LET r == _qname(name)
    IN IF r.exc # "none" THEN [exc |-> r.exc, items |-> << >>]
       ELSE [exc |-> "none", items |-> AllMatches(rdf, 1, r.q)]

\* __contains__ without its except KeyError clause
ContainsRaises(g) ==
    IF g.exc # "none" THEN [exc |-> g.exc, val |-> FALSE]
    ELSE [exc |-> "none", val |-> \E i \in DOMAIN g.items : Truthy(g.items[i].value)]

\* any(self._get_elements(key)), g being what _get_elements gave
ContainsOf(g) ==
    IF g.exc = "KeyError" THEN [exc |-> "none", val |-> FALSE]
    ELSE IF g.exc # "none" THEN [exc |-> g.exc, val |-> FALSE]
    ELSE [exc |-> "none", val |-> \E i \in DOMAIN g.items : Truthy(g.items[i].value)]

\* PdfMetadata.__contains__: [exc, val]
__contains__(rdf, key) == ContainsOf(_get_elements(rdf, key))

\* next(self._get_elements(key)), StopIteration made KeyError
FirstOf(g) ==
    IF g.exc # "none" THEN [exc |-> g.exc, val |-> PyNone]
    ELSE IF g.items = << >> THEN [exc |-> "KeyError", val |-> PyNone]
    ELSE [exc |-> "none", val |-> g.items[1].value]

\* PdfMetadata.__getitem__: [exc, val]
__getitem__(rdf, key) == FirstOf(_get_elements(rdf, key))

\* the sequences of ss joined in order
RECURSIVE Flatten(_)
Flatten(ss) == IF ss = << >> THEN << >> ELSE Head(ss) \o Flatten(Tail(ss))

\* findall('.//*') below a property element: the element, then each container
\* followed by its rdf:li children
ElemNames(e) ==
    <<e.tag>>
    \o Flatten([c \in DOMAIN e.children |->
                   <<e.children[c].tag>>
                   \o [k \in DOMAIN e.children[c].items |-> QName(XMP_NS_RDF, "li")]])

\* what _get_elements('') yields for one Description, as __iter__ names it:
\* the attributes with a non-empty value, then every descendant element
DescNames(desc) ==
    LET Full(a) == a.value # << >>
        attrs == SelectSeq(desc.attrib, Full)
    IN [k \in DOMAIN attrs |-> attrs[k].key]
       \o Flatten([e \in DOMAIN desc.children |-> ElemNames(desc.children[e])])

\* PdfMetadata.__iter__ and __len__
__iter__(rdf) == Flatten([d \in DOMAIN rdf |-> DescNames(rdf[d])])
__len__(rdf) == Len(__iter__(rdf))

\* Python's a + b on two values that were read
PyAdd(a, b) ==
    IF a.kind = "str" /\ b.kind = "str"
    THEN [exc |-> "none", val |-> PyStr(a.val \o b.val)]
    ELSE IF a.kind = "list" /\ b.kind = "list"
    THEN [exc |-> "none", val |-> PyList(a.val \o b.val)]
    ELSE [exc |-> "TypeError", val |-> PyNone]

\* PdfMetadata.pdfa_status: [exc, val]; self[key_part] + self[key_conformance],
\* KeyError answered by ''
pdfa_status(rdf) ==
    LET part == __getitem__(rdf, KeyQName(XMP_NS_PDFA_ID, "part"))
        conformance == __getitem__(rdf, KeyQName(XMP_NS_PDFA_ID, "conformance"))
    IN IF part.exc = "KeyError" \/ conformance.exc = "KeyError"
       THEN [exc |-> "none", val |-> PyStr(<< >>)]
       ELSE PyAdd(part.val, conformance.val)

\* PdfMetadata.pdfx_status: [exc, val]
pdfx_status(rdf) ==
    LET version == __getitem__(rdf, KeyQName(XMP_NS_PDFX_ID, "GTS_PDFXVersion"))
    IN IF version.exc = "KeyError" THEN [exc |-> "none", val |-> PyStr(<< >>)]
       ELSE version

\* a fresh rdf:Seq with one rdf:li per item
SeqOf(items) == Container("Seq", items)

\* sequence s without its i-th element
RemoveAt(s, i) == SubSeq(s, 1, i - 1) \o SubSeq(s, i + 1, Len(s))

\* val = val.replace('\x00', '') for a str
StripNUL(value) ==
    IF value.kind = "str" THEN PyStr(RemoveChar(value.val, NUL)) ELSE value

\* the try branch of __setitem__: the first match m is updated
SetExisting(rdf, m, q, val) ==
    IF m.attrib
    THEN IF val.kind # "str" THEN [exc |-> "TypeError", rdf |-> rdf]
         ELSE [exc |-> "none",
               rdf |-> [rdf EXCEPT ![m.desc].attrib[AttrIndex(rdf[m.desc], q)].value
                                       = val.val]]
    ELSE IF val.kind = "list"
    THEN [exc |-> "none",
          rdf |-> [rdf EXCEPT ![m.desc].children[m.elem].children
                                  = << SeqOf(val.val) >>]]
    ELSE IF val.kind = "str"
    THEN [exc |-> "none",
          rdf |-> [rdf EXCEPT ![m.desc].children[m.elem] =
                      Element(@.tag, val.val, << >>)]]
    ELSE [exc |-> "TypeError", rdf |-> rdf]

\* the except StopIteration branch of __setitem__: a new Description
SetNew(rdf, q, val) ==
    IF val.kind = "list"
    THEN [exc |-> "none",
          rdf |-> Append(rdf, Description(<< >>,
                             << Element(q, None, << SeqOf(val.val) >>) >>))]
    ELSE IF val.kind = "str"
    THEN [exc |-> "none",
          rdf |-> Append(rdf, Description(<< [key |-> q, value |-> val.val] >>,
                                          << >>))]
    ELSE [exc |-> "none", rdf |-> rdf]

\* the body of __setitem__ after the check of _updating, g being what
\* _get_elements gave for the key
SetIn(rdf, g, q, val) ==
    IF g.exc # "none" THEN [exc |-> g.exc, rdf |-> rdf]
    ELSE IF g.items # << >> THEN SetExisting(rdf, g.items[1], q, val)
    ELSE SetNew(rdf, q, val)

\* __setitem__ with the check of _updating left out
SetUnguarded(rdf, upd, key, value) ==
    SetIn(rdf, _get_elements(rdf, key), _qname(key).q, StripNUL(value))

\* PdfMetadata.__setitem__ on a loaded session: [exc, rdf]
__setitem__(rdf, upd, key, value) ==
    IF ~upd THEN [exc |-> "RuntimeError", rdf |-> rdf]
    ELSE SetIn(rdf, _get_elements(rdf, key), _qname(key).q, StripNUL(value))

\* the body of __delitem__ after the check of _updating
DelIn(rdf, g) ==
    IF g.exc # "none" THEN [exc |-> g.exc, rdf |-> rdf]
    ELSE IF g.items = << >> THEN [exc |-> "KeyError", rdf |-> rdf]
    ELSE IF g.items[1].attrib
    THEN [exc |-> "none", rdf |-> RemoveAt(rdf, g.items[1].desc)]
    ELSE [exc |-> "none",
          rdf |-> [rdf EXCEPT ![g.items[1].desc].children = RemoveAt(@, g.items[1].elem)]]

\* PdfMetadata.__delitem__ on a loaded session: [exc, rdf]
__delitem__(rdf, upd, key) ==
    IF ~upd THEN [exc |-> "RuntimeError", rdf |-> rdf]
    ELSE DelIn(rdf, _get_elements(rdf, key))

-----------------------------------------------------------------------------
(* Dates.  A datetime is [year, month, day, hour, minute, second, aware,    *)
(* off]: off is the UTC offset in minutes of an aware datetime, 0 for a     *)
(* naive one.                                                               *)

DateTime(y, mo, d, h, mi, s, aware, off) ==
    [year |-> y, month |-> mo, day |-> d, hour |-> h, minute |-> mi,
     second |-> s, aware |-> aware, off |-> off]

NoDate == DateTime(1, 1, 1, 0, 0, 0, FALSE, 0)

Digits == <<"0", "1", "2", "3", "4", "5", "6", "7", "8", "9">>
IsDigit(c) == \E i \in DOMAIN Digits : Digits[i] = c
DigitVal(c) == (CHOOSE i \in DOMAIN Digits : Digits[i] = c) - 1
In(c, lo, hi) == IsDigit(c) /\ DigitVal(c) >= lo /\ DigitVal(c) <= hi

\* the decimal digits of n >= 0, and n zero-padded to at least w digits
RECURSIVE Decimal(_)
Decimal(n) ==
    IF n < 10 THEN <<Digits[n + 1]>>
    ELSE Decimal(n \div 10) \o <<Digits[(n % 10) + 1]>>

RECURSIVE Pad(_, _)
Pad(n, w) ==
    IF Len(Decimal(n)) >= w THEN Decimal(n) ELSE <<"0">> \o Pad(n, w - 1)

\* int() of a string of digits
RECURSIVE IntOf(_)
IntOf(s) ==
    IF s = <<>> THEN 0 ELSE 10 * IntOf(SubSeq(s, 1, Len(s) - 1)) + DigitVal(s[Len(s)])

Abs(n) == IF n < 0 THEN -n ELSE n

IsLeap(y) == (y % 4 = 0 /\ y % 100 # 0) \/ y % 400 = 0
DaysIn(y, m) ==
    IF m = 2 THEN (IF IsLeap(y) THEN 29 ELSE 28)
    ELSE IF m \in {4, 6, 9, 11} THEN 30 ELSE 31

\* d.strftime('%Y%m%d%H%M%S').  The C library formats %Y: glibc writes the
\* year without padding, others pad it to four digits (padYear)
StrftimeStamp(d, padYear) ==
    (IF padYear THEN Pad(d.year, 4) ELSE Decimal(d.year))
    \o Pad(d.month, 2) \o Pad(d.day, 2)
    \o Pad(d.hour, 2) \o Pad(d.minute, 2) \o Pad(d.second, 2)

\* d.strftime('%z'): '' for a naive datetime, else sign, hours, minutes
StrftimeZ(d) ==
    IF ~d.aware THEN <<>>
    ELSE <<IF d.off < 0 THEN "-" ELSE "+">>
         \o Pad(Abs(d.off) \div 60, 2) \o Pad(Abs(d.off) % 60, 2)

\* encode_pdf_date
encode_pdf_date(d, padYear) ==
    LET s == StrftimeStamp(d, padYear)
        tz == StrftimeZ(d)
    IN IF tz = <<>> THEN s \o <<"+", "0", "0", "'", "0", "0", "'">>
       ELSE s \o <<tz[1]>> \o SubSeq(tz, 2, 3) \o <<"'">>
              \o SubSeq(tz, 4, 5) \o <<"'">>

StartsWith(s, p) == Len(s) >= Len(p) /\ SubSeq(s, 1, Len(p)) = p
EndsWith(s, p) == Len(s) >= Len(p) /\ SubSeq(s, Len(s) - Len(p) + 1, Len(s)) = p

\* s.replace(old, new) for a non-empty old
RECURSIVE Replace(_, _, _)
Replace(s, old, new) ==
    IF s = <<>> THEN <<>>
    ELSE IF StartsWith(s, old)
         THEN new \o Replace(SubSeq(s, Len(old) + 1, Len(s)), old, new)
    ELSE <<Head(s)>> \o Replace(Tail(s), old, new)

\* The regular expression datetime.strptime builds for %Y%m%d%H%M%S[%z]:
\* field k of m, d, H, M, S may take two characters or one, two tried first
At(s, i) == IF i >= 1 /\ i <= Len(s) THEN s[i] ELSE ""

TwoWide(k, a, b) ==
    CASE k = 1 -> (a = "1" /\ In(b, 0, 2)) \/ (a = "0" /\ In(b, 1, 9))
      [] k = 2 -> (a = "3" /\ In(b, 0, 1)) \/ (In(a, 1, 2) /\ IsDigit(b))
                  \/ (a = "0" /\ In(b, 1, 9)) \/ (a = " " /\ In(b, 1, 9))
      [] k = 3 -> (a = "2" /\ In(b, 0, 3)) \/ (In(a, 0, 1) /\ IsDigit(b))
      [] k = 4 -> In(a, 0, 5) /\ IsDigit(b)
      [] OTHER -> (a = "6" /\ In(b, 0, 1)) \/ (In(a, 0, 5) /\ IsDigit(b))

OneWide(k, a) == IF k \in {1, 2} THEN In(a, 1, 9) ELSE IsDigit(a)

\* %z: [+-]\d\d:?[0-5]\d; the width matched at pos, 0 if none
ZWidth(s, pos) ==
    IF At(s, pos) \in {"+", "-"} /\ IsDigit(At(s, pos + 1)) /\ IsDigit(At(s, pos + 2))
    THEN LET c == IF At(s, pos + 3) = ":" THEN 1 ELSE 0
         IN IF In(At(s, pos + 3 + c), 0, 5) /\ IsDigit(At(s, pos + 4 + c))
            THEN 5 + c ELSE 0
    ELSE 0

\* the first match of fields k..5 (and %z when withz) from pos, as the widths
\* of the fields; ok = FALSE when the expression does not match
RECURSIVE MatchFields(_, _, _, _)
MatchFields(s, pos, k, withz) ==
    IF k > 5
    THEN IF withz
         THEN [ok |-> ZWidth(s, pos) # 0, w |-> <<ZWidth(s, pos)>>]
         ELSE [ok |-> TRUE, w |-> <<>>]
    ELSE LET two == IF TwoWide(k, At(s, pos), At(s, pos + 1))
                    THEN MatchFields(s, pos + 2, k + 1, withz)
                    ELSE [ok |-> FALSE, w |-> <<>>]
             one == IF OneWide(k, At(s, pos))
                    THEN MatchFields(s, pos + 1, k + 1, withz)
                    ELSE [ok |-> FALSE, w |-> <<>>]
         IN IF two.ok THEN [ok |-> TRUE, w |-> <<2>> \o two.w]
            ELSE IF one.ok THEN [ok |-> TRUE, w |-> <<1>> \o one.w]
            ELSE [ok |-> FALSE, w |-> <<>>]

\* the digits of a field, a leading blank of the day left out
FieldInt(s, pos, w) == IntOf(RemoveChar(SubSeq(s, pos, pos + w - 1), " "))

\* where field k starts, the fields having the widths w and the year four
RECURSIVE FieldStart(_, _)
FieldStart(w, k) == IF k = 1 THEN 5 ELSE FieldStart(w, k - 1) + w[k - 1]

Field(s, w, k) == FieldInt(s, FieldStart(w, k), w[k])

\* the offset in minutes of the text z matched by %z
ZOffset(z) ==
    (IF z[1] = "-" THEN -1 ELSE 1) * (60 * IntOf(SubSeq(z, 2, 3)) + IntOf(SubSeq(z, 4, 5)))

\* the datetime strptime builds from the fields, or ValueError: the whole
\* string must have been matched (end) and the fields must make a datetime
StrptimeDate(s, end, y, mo, dd, hh, mi, ss, withz, off) ==
    IF end # Len(s) + 1 \/ y < 1 \/ dd > DaysIn(y, mo) \/ ss > 59 \/ Abs(off) >= 1440
    THEN [ok |-> FALSE, d |-> NoDate]
    ELSE [ok |-> TRUE, d |-> DateTime(y, mo, dd, hh, mi, ss, withz, off)]

StrptimeFields(s, withz, w) ==
    StrptimeDate(s, FieldStart(w, Len(w) + 1), IntOf(SubSeq(s, 1, 4)),
                 Field(s, w, 1), Field(s, w, 2), Field(s, w, 3), Field(s, w, 4),
                 Field(s, w, 5), withz,
                 IF withz
                 THEN ZOffset(RemoveChar(SubSeq(s, FieldStart(w, 6),
                                                FieldStart(w, 7) - 1), ":"))
                 ELSE 0)

StrptimeMatched(s, withz, m) ==
    IF m.ok THEN StrptimeFields(s, withz, m.w) ELSE [ok |-> FALSE, d |-> NoDate]

\* datetime.strptime(s, '%Y%m%d%H%M%S%z') when withz, else without %z:
\* [ok, d]; ok = FALSE is ValueError
Strptime(s, withz) ==
    IF \A i \in 1..4 : IsDigit(At(s, i))
    THEN StrptimeMatched(s, withz, MatchFields(s, 5, 1, withz))
    ELSE [ok |-> FALSE, d |-> NoDate]

\* try: strptime with %z; except ValueError: strptime without
FirstOk(a, b) == IF a.ok THEN a ELSE b

DecodeStripped(s) == FirstOk(Strptime(s, TRUE), Strptime(s, FALSE))

\* the two spellings of Z made +0000
StandardizeZ(s) ==
    IF EndsWith(s, <<"Z", "0", "0", "'", "0", "0", "'">>)
    THEN Replace(s, <<"Z", "0", "0", "'", "0", "0", "'">>, <<"+", "0", "0", "0", "0">>)
    ELSE IF EndsWith(s, <<"Z">>) THEN Replace(s, <<"Z">>, <<"+", "0", "0", "0", "0">>)
    ELSE s

\* decode_pdf_date: [ok, d]; ok = FALSE is the ValueError of the second strptime
decode_pdf_date(str) ==
    DecodeStripped(RemoveChar(
        StandardizeZ(IF StartsWith(str, <<"D", ":">>)
                     THEN SubSeq(str, 3, Len(str)) ELSE str), "'"))

\* datetime.isoformat() of a whole-second datetime
isoformat(d) ==
    Pad(d.year, 4) \o <<"-">> \o Pad(d.month, 2) \o <<"-">> \o Pad(d.day, 2)
    \o <<"T">> \o Pad(d.hour, 2) \o <<":">> \o Pad(d.minute, 2)
    \o <<":">> \o Pad(d.second, 2)
    \o (IF ~d.aware THEN <<>>
        ELSE <<IF d.off < 0 THEN "-" ELSE "+">> \o Pad(Abs(d.off) \div 60, 2)
             \o <<":">> \o Pad(Abs(d.off) % 60, 2))

\* fromisoformat on the strings isoformat() writes for whole seconds,
\* YYYY-MM-DDTHH:MM:SS and YYYY-MM-DDTHH:MM:SS+HH:MM; every other string of
\* this model is rejected by both definitions of lines 135-146: [ok, d]
fromisoformat(s) ==
    LET digitsAt(P) == \A i \in P : IsDigit(At(s, i))
        shape == /\ Len(s) \in {19, 25}
                 /\ digitsAt({1, 2, 3, 4, 6, 7, 9, 10, 12, 13, 15, 16, 18, 19})
                 /\ At(s, 5) = "-" /\ At(s, 8) = "-" /\ At(s, 11) = "T"
                 /\ At(s, 14) = ":" /\ At(s, 17) = ":"
                 /\ (Len(s) = 25 =>
                        /\ At(s, 20) \in {"+", "-"}
                        /\ digitsAt({21, 22, 24, 25})
                        /\ At(s, 23) = ":")
    IN IF ~shape THEN [ok |-> FALSE, d |-> NoDate]
       ELSE LET y == IntOf(SubSeq(s, 1, 4))
                mo == IntOf(SubSeq(s, 6, 7))
                dd == IntOf(SubSeq(s, 9, 10))
                hh == IntOf(SubSeq(s, 12, 13))
                mi == IntOf(SubSeq(s, 15, 16))
                ss == IntOf(SubSeq(s, 18, 19))
                aware == Len(s) = 25
                off == IF aware
                       THEN (IF s[20] = "-" THEN -1 ELSE 1)
                            * (60 * IntOf(SubSeq(s, 21, 22)) + IntOf(SubSeq(s, 24, 25)))
                       ELSE 0
            IN IF y < 1 \/ mo < 1 \/ mo > 12 \/ dd < 1 \/ dd > DaysIn(y, mo)
                  \/ hh > 23 \/ mi > 59 \/ ss > 59
                  \/ (aware /\ IntOf(SubSeq(s, 24, 25)) > 59) \/ Abs(off) >= 1440
               THEN [ok |-> FALSE, d |-> NoDate]
               ELSE [ok |-> TRUE, d |-> DateTime(y, mo, dd, hh, mi, ss, aware, off)]

-----------------------------------------------------------------------------
(* Converters and the DocumentInfo mapping *)

\* a list item that is no string (el.text = 1): ElementTree cannot write it
NotAStr == <<"int">>
IsStr(t) == t # None /\ t # NotAStr

\* the orders in which Python may iterate a value: any order for a set
Orders(v) ==
    IF v.kind = "set"
    THEN {p \in [1..Cardinality(v.val) -> v.val] : {p[i] : i \in DOMAIN p} = v.val}
    ELSE {<< >>}

\* AuthorConverter.xmp_from_docinfo: [exc, val]
AuthorConverter_xmp_from_docinfo(docinfo_val) ==
    [exc |-> "none", val |-> PyList(<<docinfo_val>>)]

\* docinfo_from_xmp with ', ' for '; '
AuthorJoinedByComma(xmp_val, order) ==
    IF xmp_val.kind = "str" THEN [exc |-> "none", val |-> xmp_val]
    ELSE IF xmp_val.kind \in {"list", "set"}
    THEN [exc |-> "none",
          val |-> PyStr(Join(<<",", " ">>,
                             IF xmp_val.kind = "set" THEN order ELSE xmp_val.val))]
    ELSE [exc |-> "TypeError", val |-> PyNone]

\* AuthorConverter.docinfo_from_xmp: [exc, val]; order is the order in which
\* a set is iterated by join
AuthorConverter_docinfo_from_xmp(xmp_val, order) ==
    LET items == IF xmp_val.kind = "set" THEN order ELSE xmp_val.val
    IN IF xmp_val.kind = "str" THEN [exc |-> "none", val |-> xmp_val]
       ELSE IF xmp_val.kind \in {"list", "set"}
               /\ \A i \in DOMAIN items : IsStr(items[i])
       THEN [exc |-> "none", val |-> PyStr(Join(<<";", " ">>, items))]
       ELSE [exc |-> "TypeError", val |-> PyNone]

\* DateConverter.xmp_from_docinfo: [exc, val]
IsoOf(d) ==
    IF d.ok THEN [exc |-> "none", val |-> PyStr(isoformat(d.d))]
    ELSE [exc |-> "ValueError", val |-> PyNone]

DateConverter_xmp_from_docinfo(docinfo_val) ==
    IF docinfo_val = << >> THEN [exc |-> "none", val |-> PyStr(<< >>)]
    ELSE IsoOf(decode_pdf_date(docinfo_val))

\* DateConverter.docinfo_from_xmp: [exc, val]
PdfDateOf(dateobj, padYear) ==
    IF dateobj.ok
    THEN [exc |-> "none", val |-> PyStr(encode_pdf_date(dateobj.d, padYear))]
    ELSE [exc |-> "ValueError", val |-> PyNone]

DateConverter_docinfo_from_xmp(xmp_val, padYear) ==
    IF xmp_val.kind # "str" THEN [exc |-> "TypeError", val |-> PyNone]
    ELSE PdfDateOf(fromisoformat(xmp_val.val), padYear)

MapEntry(uri, element, docinfo_name, converter) ==
    [uri |-> uri, element |-> element, docinfo_name |-> docinfo_name,
     converter |-> converter]

\* PdfMetadata.DOCINFO_MAPPING
DOCINFO_MAPPING == <<
    MapEntry(XMP_NS_DC, "creator", "/Author", "AuthorConverter"),
    MapEntry(XMP_NS_DC, "description", "/Subject", "None"),
    MapEntry(XMP_NS_DC, "title", "/Title", "None"),
    MapEntry(XMP_NS_PDF, "Keywords", "/Keywords", "None"),
    MapEntry(XMP_NS_PDF, "Producer", "/Producer", "None"),
    MapEntry(XMP_NS_XMP, "CreateDate", "/CreationDate", "DateConverter"),
    MapEntry(XMP_NS_XMP, "CreatorTool", "/Creator", "None"),
    MapEntry(XMP_NS_XMP, "ModifyDate", "/ModDate", "DateConverter") >>

\* the keys of a DocumentInfo dictionary in this model: the mapped ones and
\* one the mapping does not name
DocInfoKeys == {DOCINFO_MAPPING[i].docinfo_name : i \in DOMAIN DOCINFO_MAPPING}
               \cup {"/Trapped"}

\* the converter of a mapping entry applied to a DocumentInfo value
XmpFromDocinfo(e, val) ==
    CASE e.converter = "AuthorConverter" -> AuthorConverter_xmp_from_docinfo(val)
      [] e.converter = "DateConverter" -> DateConverter_xmp_from_docinfo(val)
      [] OTHER -> [exc |-> "none", val |-> PyStr(val)]

\* the converter of a mapping entry applied to an XMP value
DocinfoFromXmp(e, xmp_val, order, padYear) ==
    CASE e.converter = "AuthorConverter" ->
             AuthorConverter_docinfo_from_xmp(xmp_val, order)
      [] e.converter = "DateConverter" ->
             DateConverter_docinfo_from_xmp(xmp_val, padYear)
      [] OTHER -> [exc |-> "none", val |-> xmp_val]

\* PdfMetadata.load_from_docinfo, entries i.. of the mapping:
\* [exc, rdf, touched]; touched: a mapping method was called, which loads
\* the XMP if it was not loaded
RECURSIVE load_entries(_, _, _, _, _, _)

\* the loop goes on after the mapping call that ended as r
LoadStep(i, r, upd, di, delete_missing) ==
    IF r.exc # "none" THEN [exc |-> r.exc, rdf |-> r.rdf, touched |-> TRUE]
    ELSE load_entries(i + 1, r.rdf, upd, di, delete_missing, TRUE)

\* the entry's value is in the DocumentInfo and was converted to conv
LoadConverted(i, rdf, upd, di, delete_missing, touched, qname, conv) ==
    IF conv.exc # "none" THEN [exc |-> conv.exc, rdf |-> rdf, touched |-> touched]
    ELSE IF ~Truthy(conv.val)
    THEN load_entries(i + 1, rdf, upd, di, delete_missing, touched)
    ELSE LoadStep(i, __setitem__(rdf, upd, qname, conv.val), upd, di, delete_missing)

LoadEntry(i, e, rdf, upd, di, delete_missing, touched) ==
    IF di[e.docinfo_name] = None
    THEN IF delete_missing /\ __contains__(rdf, KeyQName(e.uri, e.element)).val
         THEN LoadStep(i, __delitem__(rdf, upd, KeyQName(e.uri, e.element)),
                       upd, di, delete_missing)
         ELSE load_entries(i + 1, rdf, upd, di, delete_missing,
                           touched \/ delete_missing)
    ELSE LoadConverted(i, rdf, upd, di, delete_missing, touched,
                       KeyQName(e.uri, e.element),
                       XmpFromDocinfo(e, di[e.docinfo_name]))

load_entries(i, rdf, upd, di, delete_missing, touched) ==
    IF i > Len(DOCINFO_MAPPING) THEN [exc |-> "none", rdf |-> rdf, touched |-> touched]
    ELSE LoadEntry(i, DOCINFO_MAPPING[i], rdf, upd, di, delete_missing, touched)

load_from_docinfo(rdf, upd, di, delete_missing) ==
    load_entries(1, rdf, upd, di, delete_missing, FALSE)

\* PdfMetadata._update_docinfo, entries i.. of the mapping: [exc, docinfo]
RECURSIVE update_entries(_, _, _, _, _)

\* value.encode('ascii') of the converted value, stored under the entry's key
UpdateValue(i, rdf, di, order, padYear, e, value) ==
    IF value.exc # "none" THEN [exc |-> value.exc, docinfo |-> di]
    ELSE IF value.val.kind # "str" THEN [exc |-> "AttributeError", docinfo |-> di]
    ELSE update_entries(i + 1, rdf, [di EXCEPT ![e.docinfo_name] = value.val.val],
                        order, padYear)

\* got is what self[qname] gave
UpdateGot(i, rdf, di, order, padYear, e, got) ==
    IF got.exc = "KeyError"
    THEN update_entries(i + 1, rdf, [di EXCEPT ![e.docinfo_name] = None],
                        order, padYear)
    ELSE UpdateValue(i, rdf, di, order, padYear, e,
                     DocinfoFromXmp(e, got.val, order, padYear))

update_entries(i, rdf, di, order, padYear) ==
    IF i > Len(DOCINFO_MAPPING) THEN [exc |-> "none", docinfo |-> di]
    ELSE UpdateGot(i, rdf, di, order, padYear, DOCINFO_MAPPING[i],
                   __getitem__(rdf, KeyQName(DOCINFO_MAPPING[i].uri,
                                             DOCINFO_MAPPING[i].element)))

_update_docinfo(rdf, di, order, padYear) == update_entries(1, rdf, di, order, padYear)

-----------------------------------------------------------------------------
(* The document, loading, and the commit *)

\* 'pikepdf ' + pikepdf_version, the version written as one character
ToolString == <<"p", "i", "k", "e", "p", "d", "f", " ", "v">>

\* what ElementTree.write keeps of a text: '' and None are written alike
Written(t) == IF t = << >> THEN None ELSE t

\* ElementTree.write of the tree: the tree with its texts as written;
\* ok = FALSE (TypeError) when a text is no string
XmlWrite(rdf) ==
    LET liTexts(e) == UNION { {e.children[c].items[k] : k \in DOMAIN e.children[c].items}
                              : c \in DOMAIN e.children }
        texts == UNION { UNION { {rdf[d].children[e].text}
                                 \cup liTexts(rdf[d].children[e])
                                 : e \in DOMAIN rdf[d].children }
                         : d \in DOMAIN rdf }
        item(c) == [tag |-> c.tag, items |-> [k \in DOMAIN c.items |-> Written(c.items[k])]]
        elem(e) == [tag |-> e.tag, text |-> Written(e.text),
                    children |-> [c \in DOMAIN e.children |-> item(e.children[c])]]
    IN [ok |-> NotAStr \notin texts,
        xml |-> [d \in DOMAIN rdf |->
                    [attrib |-> rdf[d].attrib,
                     children |-> [e \in DOMAIN rdf[d].children |->
                                      elem(rdf[d].children[e])]]]]

\* defusedxml parse() of bytes ElementTree wrote
XmlParse(data) == data.xml

\* PdfMetadata._get_xml_bytes: [exc, data]
XmlBytes(w, xpacket) ==
    [exc |-> IF w.ok THEN "none" ELSE "TypeError",
     data |-> [xpacket |-> xpacket, xml |-> w.xml]]

_get_xml_bytes(rdf, xpacket) == XmlBytes(XmlWrite(rdf), xpacket)

\* Root.Metadata: absent, or a stream with its bytes and its /Type, /Subtype
NoStream == [present |-> FALSE, data |-> [xpacket |-> FALSE, xml |-> << >>],
             Type |-> "", Subtype |-> ""]
Stream(data) == [present |-> TRUE, data |-> data, Type |-> "", Subtype |-> ""]

\* self._xmp is None
NoXmp == [loaded |-> FALSE, rdf |-> << >>]

\* PdfMetadata.__str__, which is not wrapped by ensure_loaded: self._xmp is
\* None on a session nothing has loaded; [exc, val]
__str__(x) ==
    IF ~x.loaded THEN [exc |-> "AttributeError", val |-> PyNone]
    ELSE LET b == _get_xml_bytes(x.rdf, FALSE)
         IN [exc |-> b.exc, val |-> [kind |-> "text", val |-> b.data.xml]]

\* PdfMetadata._load (with _create_xmp: TRIVIAL_XMP has no Description)
_load(strm) ==
    IF ~strm.present THEN [loaded |-> TRUE, rdf |-> << >>]
    ELSE [loaded |-> TRUE, rdf |-> XmlParse(strm.data)]

\* the decorator ensure_loaded: self._xmp when the wrapped method runs
ensure_loaded(x, strm) == IF ~x.loaded THEN _load(strm) ELSE x

\* the stream as _apply_changes writes it
MetadataStream(data) ==
    [Stream(data) EXCEPT !.Type = "/Metadata", !.Subtype = "/XML"]

\* self['pdf:Producer'] = 'pikepdf ' + pikepdf_version, after the date was set
StampProducer(upd, s1) ==
    IF s1.exc # "none" THEN s1
    ELSE __setitem__(s1.rdf, upd, KeyQName(XMP_NS_PDF, "Producer"), PyStr(ToolString))

\* the two stamps set whether or not self.mark is on
StampAlways(rdf, upd, mk, now) ==
    StampProducer(upd, __setitem__(rdf, upd, KeyQName(XMP_NS_XMP, "MetadataDate"),
                                   PyStr(now)))

\* if self.mark: the two stamps
Stamp(rdf, upd, mk, now) ==
    IF mk
    THEN StampProducer(upd, __setitem__(rdf, upd, KeyQName(XMP_NS_XMP, "MetadataDate"),
                                        PyStr(now)))
    ELSE [exc |-> "none", rdf |-> rdf]

\* if self.sync_docinfo: self._update_docinfo(), which ended as exported
ApplyExported(rdf, strm, exported) ==
    [exc |-> exported.exc, rdf |-> rdf, stream |-> strm, docinfo |-> exported.docinfo]

\* the stream is written from the bytes xml, then the DocumentInfo
ApplyWritten(rdf, sync, strm, di, order, padYear, xml) ==
    IF xml.exc # "none"
    THEN [exc |-> xml.exc, rdf |-> rdf, stream |-> strm, docinfo |-> di]
    ELSE IF sync
    THEN ApplyExported(rdf, MetadataStream(xml.data),
                       _update_docinfo(rdf, di, order, padYear))
    ELSE [exc |-> "none", rdf |-> rdf, stream |-> MetadataStream(xml.data),
          docinfo |-> di]

\* the commit after the stamps ended as s
ApplyStamped(s, sync, strm, di, order, padYear) ==
    IF s.exc # "none"
    THEN [exc |-> s.exc, rdf |-> s.rdf, stream |-> strm, docinfo |-> di]
    ELSE ApplyWritten(s.rdf, sync, strm, di, order, padYear,
                      _get_xml_bytes(s.rdf, TRUE))

\* _apply_changes with the stamps set after the stream and the DocumentInfo
\* were written
StampAfter(a, upd, mk, now) ==
    IF a.exc # "none" THEN a ELSE [a EXCEPT !.rdf = Stamp(a.rdf, upd, mk, now).rdf]

ApplyWriteFirst(rdf, upd, mk, sync, strm, di, now, order, padYear) ==
    StampAfter(ApplyStamped([exc |-> "none", rdf |-> rdf], sync, strm, di, order, padYear),
               upd, mk, now)

\* PdfMetadata._apply_changes: [exc, rdf, stream, docinfo]
_apply_changes(rdf, upd, mk, sync, strm, di, now, order, padYear) ==
    ApplyStamped(Stamp(rdf, upd, mk, now), sync, strm, di, order, padYear)

\* __exit__ without the finally: _updating is reset only when
\* _apply_changes returned
ExitWithoutFinally(a) ==
    [exc |-> a.exc, ret |-> FALSE, rdf |-> a.rdf, stream |-> a.stream,
     docinfo |-> a.docinfo, updating |-> a.exc # "none"]

\* finally: self._updating = False, after _apply_changes ended as a
ExitApplied(a) ==
    [exc |-> a.exc, ret |-> FALSE, rdf |-> a.rdf, stream |-> a.stream,
     docinfo |-> a.docinfo, updating |-> FALSE]

\* __exit__ without the test of exc_type: the commit runs on every exit
ExitAlwaysCommits(exc_type, rdf, upd, mk, sync, strm, di, now, order, padYear) ==
    ExitApplied(_apply_changes(rdf, upd, mk, sync, strm, di, now, order, padYear))

\* PdfMetadata.__exit__: [exc, ret, rdf, stream, docinfo, updating]; exc is
\* what __exit__ itself raises, ret the truth value of what it returns
__exit__(exc_type, rdf, upd, mk, sync, strm, di, now, order, padYear) ==
    IF exc_type # "none"
    THEN [exc |-> "none", ret |-> FALSE, rdf |-> rdf, stream |-> strm,
          docinfo |-> di, updating |-> FALSE]
    ELSE ExitApplied(_apply_changes(rdf, upd, mk, sync, strm, di, now, order, padYear))

\* the with statement: what leaves the block when the body raised exc_type
\* and __exit__ ended as x
WithRaises(exc_type, x) ==
    IF x.exc # "none" THEN x.exc
    ELSE IF exc_type # "none" /\ ~x.ret THEN exc_type
    ELSE "none"

-----------------------------------------------------------------------------
(* The session as a state machine.  outcome records the last call; snap and *)
(* the counters are history kept for stating properties: snap.rdf, stream,  *)
(* docinfo are the store and the document when the current (or last) scope  *)
(* was entered, snap.log the mapping calls made in it, snap.prev how the    *)
(* scope before it ended, snap.base the store as it would be had the edits  *)
(* of aborted scopes been discarded, snap.depth the number of with blocks   *)
(* entered and not yet left.                                                *)

Outcome(op, key, val, exc, upd, body) ==
    [op |-> op, key |-> key, val |-> val, exc |-> exc, upd |-> upd, body |-> body]

PyBool(b) == [kind |-> "bool", val |-> b]

NoCodec == [stage |-> "none", input |-> NoDate, padYear |-> TRUE, encoded |-> << >>,
            decoded |-> [ok |-> FALSE, d |-> NoDate]]

NoInfo == [k \in DocInfoKeys |-> None]

\* the state after PdfMetadata(pdf, pikepdf_mark, sync_docinfo), for the
\* documents with metadata stream strm and DocumentInfo di
InitDocument(streams, infos, marks, syncs) ==
    /\ xmp = NoXmp
    /\ updating = FALSE
    /\ mark \in marks
    /\ sync_docinfo \in syncs
    /\ stream \in streams
    /\ docinfo \in infos
    /\ outcome = Outcome("init", KeyEmpty, PyNone, "none", FALSE, "none")
    /\ snap = [open |-> FALSE, rdf |-> << >>, stream |-> stream, docinfo |-> docinfo,
               log |-> << >>, base |-> << >>, prev |-> "none", depth |-> 0]
    /\ nops = 0
    /\ ntxn = 0

InitWith(streams, infos, marks, syncs) ==
    /\ InitDocument(streams, infos, marks, syncs)
    /\ codec = NoCodec

Logged(op, key, exc) ==
    IF snap.open
    THEN [snap EXCEPT !.log = Append(@, [op |-> op, key |-> key, exc |-> exc])]
    ELSE snap

\* with meta: ... entered (PdfMetadata.__enter__)
Enter ==
    /\ ~snap.open
    /\ ntxn < MaxTxn
    /\ xmp' = ensure_loaded(xmp, stream)
    /\ updating' = TRUE
    /\ snap' = [open |-> TRUE, rdf |-> xmp'.rdf, stream |-> stream,
                docinfo |-> docinfo, log |-> << >>,
                base |-> IF snap.prev = "abort" THEN snap.base ELSE xmp'.rdf,
                prev |-> snap.prev, depth |-> 1]
    /\ ntxn' = ntxn + 1
    /\ outcome' = Outcome("enter", KeyEmpty, PyNone, "none", updating, "none")
    /\ UNCHANGED <<mark, sync_docinfo, stream, docinfo, nops, codec>>

\* the call op(key, val) on the session ended as r = [exc, rdf]
Called(op, key, val, r) ==
    /\ xmp' = [loaded |-> TRUE, rdf |-> r.rdf]
    /\ outcome' = Outcome(op, key, val, r.exc, updating, "none")
    /\ snap' = Logged(op, key, r.exc)
    /\ nops' = nops + 1
    /\ UNCHANGED <<updating, mark, sync_docinfo, stream, docinfo, ntxn, codec>>

\* meta[key] = val
SetItem(key, val) ==
    /\ nops < MaxOps
    /\ Called("set", key, val,
              __setitem__(ensure_loaded(xmp, stream).rdf, updating, key, val))

\* del meta[key]
DelItem(key) ==
    /\ nops < MaxOps
    /\ Called("del", key, PyNone,
              __delitem__(ensure_loaded(xmp, stream).rdf, updating, key))

\* load_from_docinfo ended as r = [exc, rdf, touched]
Loaded(delete_missing, r) ==
    /\ xmp' = IF r.touched THEN [loaded |-> TRUE, rdf |-> r.rdf] ELSE xmp
    /\ outcome' = Outcome("load_from_docinfo", KeyEmpty, PyBool(delete_missing),
                          r.exc, updating, "none")
    /\ snap' = Logged("load_from_docinfo", KeyEmpty, r.exc)
    /\ nops' = nops + 1
    /\ UNCHANGED <<updating, mark, sync_docinfo, stream, docinfo, ntxn, codec>>

\* meta.load_from_docinfo(pdf.docinfo, delete_missing)
LoadFromDocinfo(delete_missing) ==
    /\ nops < MaxOps
    /\ Loaded(delete_missing,
              load_from_docinfo(ensure_loaded(xmp, stream).rdf, updating, docinfo,
                                delete_missing))

\* __exit__ ended as x
Exited(exc_type, x) ==
    /\ xmp' = [xmp EXCEPT !.rdf = x.rdf]
    /\ stream' = x.stream
    /\ docinfo' = x.docinfo
    /\ updating' = x.updating
    /\ outcome' = Outcome("exit", KeyEmpty, PyNone, WithRaises(exc_type, x),
                          updating, exc_type)
    /\ snap' = [snap EXCEPT !.open = snap.depth > 1,
                            !.depth = snap.depth - 1,
                            !.prev = IF exc_type # "none" THEN "abort"
                                     ELSE IF x.exc # "none" THEN "fail"
                                     ELSE "commit"]
    /\ UNCHANGED <<mark, sync_docinfo, nops, ntxn, codec>>

\* a call that reads through a method wrapped by ensure_loaded ended as r
Read(op, key, r) ==
    /\ xmp' = ensure_loaded(xmp, stream)
    /\ outcome' = Outcome(op, key, r.val, r.exc, updating, "none")
    /\ UNCHANGED <<updating, mark, sync_docinfo, stream, docinfo, snap, nops, ntxn,
                   codec>>

\* key in meta
Contains(key) ==
    LET c == __contains__(ensure_loaded(xmp, stream).rdf, key)
    IN Read("contains", key, [exc |-> c.exc, val |-> PyBool(c.val)])

\* meta[key]
GetItem(key) == Read("get", key, __getitem__(ensure_loaded(xmp, stream).rdf, key))

\* len(meta), which iterates the session
Length ==
    Read("len", KeyEmpty,
         [exc |-> "none",
          val |-> [kind |-> "int", val |-> __len__(ensure_loaded(xmp, stream).rdf)]])

\* meta.pdfa_status, meta.pdfx_status
PdfaStatus == Read("pdfa_status", KeyEmpty, pdfa_status(ensure_loaded(xmp, stream).rdf))
PdfxStatus == Read("pdfx_status", KeyEmpty, pdfx_status(ensure_loaded(xmp, stream).rdf))

\* str(meta), which loads nothing
Str ==
    /\ outcome' = Outcome("str", KeyEmpty, __str__(xmp).val, __str__(xmp).exc,
                          updating, "none")
    /\ UNCHANGED <<xmp, updating, mark, sync_docinfo, stream, docinfo, snap, nops,
                   ntxn, codec>>

\* with meta: ... entered inside a with meta: block that is still open
EnterNested ==
    /\ snap.open
    /\ snap.depth < MaxDepth
    /\ updating' = TRUE
    /\ snap' = [snap EXCEPT !.depth = snap.depth + 1]
    /\ outcome' = Outcome("enter", KeyEmpty, PyNone, "none", updating, "none")
    /\ UNCHANGED <<xmp, mark, sync_docinfo, stream, docinfo, nops, ntxn, codec>>

\* the with block is left: by the exception exc_type the body raised, or at
\* its end when exc_type = "none".  now is datetime.now().isoformat()
Exit(exc_type, now, order, padYear) ==
    /\ snap.open
    /\ Exited(exc_type, __exit__(exc_type, xmp.rdf, updating, mark, sync_docinfo,
                                 stream, docinfo, now, order, padYear))

\* the clock readings and the order in which join iterates a Bag's set
NowStamps == {isoformat(DateTime(2021, 6, 1, 10, 0, 0, FALSE, 0)),
              isoformat(DateTime(2021, 6, 1, 10, 0, 1, FALSE, 0))}

CreatorOrders ==
    Orders(__getitem__(xmp.rdf, KeyQName(XMP_NS_DC, "creator")).val)

ExitClean ==
    \E now \in NowStamps, order \in CreatorOrders, padYear \in BOOLEAN :
        Exit("none", now, order, padYear)

\* the body raises: the error of its last call, or one of its own
ExitRaise ==
    \E e \in {"Exception"}
             \cup (IF snap.log = << >> THEN {}
                   ELSE {snap.log[Len(snap.log)].exc} \ {"none"}) :
        Exit(e, << >>, << >>, TRUE)

-----------------------------------------------------------------------------
(* Inputs: keys, values, documents *)

K_creator == KeyQName(XMP_NS_DC, "creator")
K_description == KeyShort("dc", "description")
K_title == KeyShort("dc", "title")
K_subject == KeyShort("dc", "subject")
K_Producer == KeyShort("pdf", "Producer")
K_CreateDate == KeyQName(XMP_NS_XMP, "CreateDate")
K_MetadataDate == KeyQName(XMP_NS_XMP, "MetadataDate")

sA == <<"a">>
sOld == <<"o", "l", "d">>
sHello == <<"H", "e", "l", "l", "o">>
sAlice == <<"A", "l", "i", "c", "e">>
sBob == <<"B", "o", "b">>
sGarbage == <<"x">>
sIso == isoformat(DateTime(2020, 1, 1, 12, 0, 0, TRUE, -300))
sPdfDate == <<"D", ":">> \o encode_pdf_date(DateTime(2020, 1, 1, 12, 0, 0, TRUE, -300), TRUE)

\* the bytes of a metadata stream holding the Descriptions rdf
Packet(rdf) == Stream([xpacket |-> TRUE, xml |-> rdf])

Attr(uri, tag, value) == [key |-> QName(uri, tag), value |-> value]

\* a document whose XMP has a date as attribute and a producer as element
DocSmall == Packet(<<
    Description(<< Attr(XMP_NS_XMP, "CreateDate", sIso) >>,
                << Element(QName(XMP_NS_PDF, "Producer"), sOld, << >>) >>) >>)

InfoOf(pairs) ==
    [k \in DocInfoKeys |->
        IF \E i \in DOMAIN pairs : pairs[i][1] = k
        THEN pairs[CHOOSE i \in DOMAIN pairs : pairs[i][1] = k][2]
        ELSE None]

InfoBlankTitle == InfoOf(<< <<"/Title", << >> >> >>)
InfoLegacy == InfoOf(<< <<"/Author", sBob>>, <<"/CreationDate", sPdfDate>>,
                        <<"/Producer", sOld>>, <<"/Trapped", sA>> >>)
InfoBadDate == InfoOf(<< <<"/CreationDate", sGarbage>>, <<"/Creator", sA>> >>)

ProtoKeys == {K_CreateDate, K_Producer}
ProtoValues == {PyStr(sA), PyList(<<NotAStr>>)}
ProtoStreams == {NoStream, DocSmall}
ProtoInfos == {NoInfo, InfoBlankTitle, InfoLegacy, InfoBadDate}

-----------------------------------------------------------------------------
(* The transaction protocol: every call in every order *)

Init == InitWith(ProtoStreams, ProtoInfos, BOOLEAN, BOOLEAN)

SetProto == \E key \in ProtoKeys, val \in ProtoValues : SetItem(key, val)
DelProto == \E key \in ProtoKeys : DelItem(key)
LoadProto == \E delete_missing \in BOOLEAN : LoadFromDocinfo(delete_missing)

Next ==
    \/ Enter
    \/ SetProto
    \/ DelProto
    \/ LoadProto
    \/ ExitClean
    \/ ExitRaise

Spec == Init /\ [][Next]_vars

-----------------------------------------------------------------------------
(* Properties of the transaction protocol, checked under Spec *)

\* the property names a reader asks for
AllKeys == {K_creator, K_description, K_title, K_subject, K_Producer,
            K_CreateDate, K_MetadataDate}

\* what get answers for every name: the store as its readers see it
Answers(rdf) == [k \in AllKeys |-> __getitem__(rdf, k)]

BodyRaised == outcome.op = "exit" /\ outcome.body # "none"
CleanExit == outcome.op = "exit" /\ outcome.body = "none"

\* C1: a scope whose body raised leaves the store answering every get as it
\* did when the scope was entered, and a later scope that makes no call and
\* commits (unmarked) writes the store as it was before the aborted scopes
C1_AbortDiscardsEdits ==
    /\ BodyRaised => Answers(xmp.rdf) = Answers(snap.rdf)
    /\ (CleanExit /\ outcome.exc = "none" /\ ~mark /\ snap.log = << >>)
           => stream.data.xml = XmlWrite(snap.base).xml

\* C2: when the body raised, the metadata stream and the DocumentInfo are
\* what they were when the scope was entered, and the body's error is what
\* leaves the with statement
C2_AbortLeavesDocument ==
    BodyRaised => /\ stream = snap.stream
                  /\ docinfo = snap.docinfo
                  /\ outcome.exc = outcome.body

\* a scope with successful edits, marking and synchronization on, was left
\* by an error of its body
C2_Witness ==
    /\ BodyRaised
    /\ mark /\ sync_docinfo
    /\ Answers(xmp.rdf) # Answers(snap.rdf)

\* C3: a commit that fails leaves the metadata stream as it was before the
\* commit and the session not editing
C3_FailedCommitLeavesStream ==
    (CleanExit /\ outcome.exc # "none") => (stream = snap.stream /\ ~updating)

\* C4: after a scope is left, by an error of the body, by a commit or by a
\* failed commit, the session is not editing; it is editing exactly inside a
\* scope, and there set and delete are never refused for want of a scope
C4_FlagAlwaysReset ==
    /\ outcome.op = "exit" => ~updating
    /\ updating = snap.open
    /\ (snap.open /\ outcome.op \in {"set", "del"}) => outcome.exc # "RuntimeError"

\* after a commit that failed, a second scope was entered and a set in it
\* succeeded
C4_Witness ==
    /\ ntxn = 2
    /\ snap.open
    /\ snap.prev = "fail"
    /\ outcome.op = "set"
    /\ outcome.exc = "none"

\* the mapped legacy values present in a DocumentInfo
MappedPresent(di) ==
    {i \in DOMAIN DOCINFO_MAPPING : di[DOCINFO_MAPPING[i].docinfo_name] # None}

\* a present legacy value that load_from_docinfo converts and stores: any
\* author, a date that decodes, any other value that is not empty
Storable(e, v) ==
    CASE e.converter = "AuthorConverter" -> TRUE
      [] e.converter = "DateConverter" -> v # << >> /\ decode_pdf_date(v).ok
      [] OTHER -> v # << >>

\* a present legacy value that load_from_docinfo skips: an empty string
\* that is no author
Skipped(e, v) == e.converter # "AuthorConverter" /\ v = << >>

\* C5, as the code has it: outside a scope every set and delete fails with
\* RuntimeError, and set, delete and load_from_docinfo leave the store, the
\* stream and the DocumentInfo unchanged; load_from_docinfo fails with
\* RuntimeError when a mapped value is present and every present one is
\* storable, raises nothing when it deletes nothing and every present value
\* is one it skips, and otherwise raises RuntimeError, ValueError or nothing
C5_MutationOutsideScope ==
    [][(~updating /\ nops' # nops) =>
          /\ ensure_loaded(xmp', stream').rdf = ensure_loaded(xmp, stream).rdf
          /\ stream' = stream
          /\ docinfo' = docinfo
          /\ ~updating'
          /\ outcome'.op \in {"set", "del"} => outcome'.exc = "RuntimeError"
          /\ outcome'.op = "load_from_docinfo" =>
                /\ outcome'.exc \in {"none", "RuntimeError", "ValueError"}
                /\ (/\ MappedPresent(docinfo) # {}
                    /\ \A i \in MappedPresent(docinfo) :
                          Storable(DOCINFO_MAPPING[i],
                                   docinfo[DOCINFO_MAPPING[i].docinfo_name]))
                      => outcome'.exc = "RuntimeError"
                /\ (/\ outcome'.val = PyBool(FALSE)
                    /\ \A i \in MappedPresent(docinfo) :
                          Skipped(DOCINFO_MAPPING[i],
                                  docinfo[DOCINFO_MAPPING[i].docinfo_name]))
                      => outcome'.exc = "none"]_vars

\* a set was refused after a scope had been left
C5_Witness ==
    /\ ntxn >= 1
    /\ ~snap.open
    /\ outcome.op = "set"
    /\ ~outcome.upd
    /\ outcome.exc = "RuntimeError"

\* C5, as stated: outside a scope every set and delete, and every
\* load_from_docinfo with a mapped legacy value present, fails with
\* RuntimeError
C5_AlwaysMisuse ==
    (/\ ~outcome.upd
     /\ \/ outcome.op \in {"set", "del"}
        \/ outcome.op = "load_from_docinfo" /\ MappedPresent(docinfo) # {})
        => outcome.exc = "RuntimeError"

\* a body call of the scope set key and succeeded
BodySet(key) ==
    \E i \in DOMAIN snap.log :
        snap.log[i] = [op |-> "set", key |-> key, exc |-> "none"]

\* C10: on a clean exit the stamps are set before the tree is serialized and
\* the DocumentInfo is written after the stream.  With marking on, the stream
\* written holds xmp:MetadataDate, the clock reading, and pdf:Producer, the
\* tool string, and a completed export leaves /Producer the tool string; with
\* marking off the stream holds both fields as the store had them
C10_CommitOrder ==
    [][(snap.open /\ outcome'.op = "exit" /\ outcome'.body = "none"
        /\ XmlWrite(xmp'.rdf).ok) =>
          /\ stream'.present
          /\ mark =>
                /\ __getitem__(XmlParse(stream'.data), K_MetadataDate)
                      \in {[exc |-> "none", val |-> PyStr(n)] : n \in NowStamps}
                /\ __getitem__(XmlParse(stream'.data), K_Producer)
                      = [exc |-> "none", val |-> PyStr(ToolString)]
                /\ (sync_docinfo /\ outcome'.exc = "none")
                      => docinfo'["/Producer"] = ToolString
          /\ ~mark =>
                \A k \in {K_MetadataDate, K_Producer} :
                    __getitem__(XmlParse(stream'.data), k) = __getitem__(xmp.rdf, k)]_vars

\* a marked, synchronized commit after the body had set pdf:Producer
C10_Witness ==
    /\ CleanExit
    /\ outcome.exc = "none"
    /\ mark /\ sync_docinfo
    /\ BodySet(K_Producer)
    /\ docinfo["/Producer"] = ToolString
    /\ __getitem__(XmlParse(stream.data), K_Producer).val = PyStr(ToolString)

-----------------------------------------------------------------------------
(* The store: sets and deletes on documents whose properties are encoded    *)
(* as attribute, as text element, and as Seq, Bag and Alt element           *)

\* dc:description an attribute, dc:title a text element, dc:creator a Seq,
\* dc:subject a Bag
DocRich == Packet(<<
    Description(<< Attr(XMP_NS_DC, "description", sOld) >>,
                << Element(QName(XMP_NS_DC, "title"), sHello, << >>),
                   Element(QName(XMP_NS_DC, "creator"), None,
                           << Container("Seq", <<sAlice, sBob>>) >>),
                   Element(QName(XMP_NS_DC, "subject"), <<" ">>,
                           << Container("Bag", <<sA, sOld>>) >>) >>) >>)

\* dc:title an Alt, dc:creator a Bag, in a second Description
DocAlt == Packet(<<
    Description(<< >>, << >>),
    Description(<< >>,
                << Element(QName(XMP_NS_DC, "title"), <<" ">>,
                           << Container("Alt", <<sHello>>) >>),
                   Element(QName(XMP_NS_DC, "creator"), None,
                           << Container("Bag", <<sAlice, sBob>>) >>) >>) >>)

StoreKeys == {K_title, K_creator, K_subject, K_description}
StoreValues == {PyStr(sA), PyList(<<sAlice, sBob>>)}
StoreStreams == {NoStream, DocRich, DocAlt}

InitStore == InitWith(StoreStreams, {NoInfo}, {FALSE}, BOOLEAN)

SetStore == \E key \in StoreKeys, val \in StoreValues : SetItem(key, val)
DelStore == \E key \in StoreKeys : DelItem(key)

NextStore ==
    \/ Enter
    \/ SetStore
    \/ DelStore
    \/ ExitClean
    \/ ExitRaise

SpecStore == InitStore /\ [][NextStore]_vars

\* C6: inside a scope, after set(key, v) succeeded for a list of strings or
\* a string v, get(key) returns v, whatever the key's encoding was
C6_ContainerFidelity ==
    (outcome.op = "set" /\ outcome.upd /\ outcome.exc = "none")
        => __getitem__(xmp.rdf, outcome.key) = [exc |-> "none", val |-> outcome.val]

\* the first match of key in the store is a property attribute
FirstIsAttribute(rdf, key) ==
    /\ _get_elements(rdf, key).exc = "none"
    /\ _get_elements(rdf, key).items # << >>
    /\ _get_elements(rdf, key).items[1].attrib

\* C11: inside a scope, delete of a key whose first match is a property
\* attribute raises nothing and leaves the tree as it was
C11_DeleteAttributeNoOp ==
    [][(updating /\ outcome'.op = "del"
        /\ FirstIsAttribute(xmp.rdf, outcome'.key))
           => (outcome'.exc = "none" /\ xmp'.rdf = xmp.rdf)]_vars

-----------------------------------------------------------------------------
(* Synchronization with the DocumentInfo dictionary *)

sZoneless == <<"2", "0", "2", "0", "0", "1", "0", "1", "1", "2", "0", "0", "0", "0">>

\* dc:creator a Seq of two authors, xmp:CreateDate an attribute
DocAuthors == Packet(<<
    Description(<< Attr(XMP_NS_XMP, "CreateDate", sIso) >>,
                << Element(QName(XMP_NS_DC, "creator"), None,
                           << Container("Seq", <<sAlice, sBob>>) >>) >>) >>)

InfoZoneless == InfoOf(<< <<"/ModDate", sZoneless>>, <<"/Keywords", sA>> >>)

SyncKeys == {K_creator, K_CreateDate}
SyncValues == {PyList(<<sAlice, sBob>>), PyStr(sIso)}
SyncStreams == {NoStream, DocAuthors, DocAlt}
SyncInfos == {NoInfo, InfoLegacy, InfoZoneless}

InitSync == InitWith(SyncStreams, SyncInfos, BOOLEAN, {TRUE})

SetSync == \E key \in SyncKeys, val \in SyncValues : SetItem(key, val)
DelSync == \E key \in SyncKeys : DelItem(key)
LoadSync == \E delete_missing \in BOOLEAN : LoadFromDocinfo(delete_missing)

NextSync ==
    \/ Enter
    \/ SetSync
    \/ DelSync
    \/ LoadSync
    \/ ExitClean
    \/ ExitRaise

SpecSync == InitSync /\ [][NextSync]_vars

sAliceBob == <<"A", "l", "i", "c", "e", ";", " ", "B", "o", "b">>

\* the scalar forms of an XMP value v under a mapping entry: authors joined
\* by '; ' (a set in any order), a date re-encoded as a PDF date, every
\* other value itself
ScalarForms(e, v) ==
    CASE e.converter = "AuthorConverter" ->
             IF v.kind = "str" THEN {v.val}
             ELSE {Join(<<";", " ">>, o) :
                      o \in (IF v.kind = "set" THEN Orders(v) ELSE {v.val})}
      [] e.converter = "DateConverter" ->
             {encode_pdf_date(fromisoformat(v.val).d, p) : p \in BOOLEAN}
      [] OTHER -> {v.val}

\* the legacy value of an entry is as the XMP value found makes it
ExportedAs(e, found, di) ==
    IF found.exc = "KeyError" THEN di[e.docinfo_name] = None
    ELSE di[e.docinfo_name] \in ScalarForms(e, found.val)

\* C7: after a commit with synchronization on that completed, every mapped
\* legacy key is absent when get of its XMP name fails with KeyError, and
\* else holds the scalar form of the XMP value; the authors Alice and Bob
\* are exported as "Alice; Bob"
C7_ExportMatchesXmp ==
    (CleanExit /\ outcome.exc = "none" /\ sync_docinfo) =>
        /\ \A i \in DOMAIN DOCINFO_MAPPING :
              ExportedAs(DOCINFO_MAPPING[i],
                         __getitem__(xmp.rdf, KeyQName(DOCINFO_MAPPING[i].uri,
                                                       DOCINFO_MAPPING[i].element)),
                         docinfo)
        /\ __getitem__(xmp.rdf, K_creator).val = PyList(<<sAlice, sBob>>)
              => docinfo["/Author"] = sAliceBob

\* the body set dc:creator to Alice and Bob, the commit exported them and
\* removed a legacy key whose XMP name is absent
C7_Witness ==
    /\ CleanExit /\ outcome.exc = "none" /\ sync_docinfo
    /\ BodySet(K_creator)
    /\ __getitem__(xmp.rdf, K_creator).val = PyList(<<sAlice, sBob>>)
    /\ docinfo["/Author"] = sAliceBob
    /\ snap.docinfo["/Keywords"] # None
    /\ docinfo["/Keywords"] = None

\* a PDF date that names no time zone
ZoneLess(v) == \A i \in DOMAIN v : v[i] \notin {"+", "-", "Z"}

\* the legacy value after is the value before, up to the time zone +00'00'
\* given to a date that had none
SameUpToNormalization(e, before, after) ==
    \/ after = before
    \/ /\ e.converter = "DateConverter"
       /\ ZoneLess(before)
       /\ after = before \o <<"+", "0", "0", "'", "0", "0", "'">>

\* C8: a scope entered on an empty store whose body is one
\* load_from_docinfo, committed unmarked with synchronization on, leaves
\* every mapped legacy value that was present equal to the original, up to
\* the time zone of a date that had none
C8_MappingSymmetry ==
    (/\ CleanExit /\ outcome.exc = "none"
     /\ ~mark /\ sync_docinfo
     /\ snap.rdf = << >>
     /\ Len(snap.log) = 1
     /\ snap.log[1].op = "load_from_docinfo"
     /\ snap.log[1].exc = "none") =>
        \A i \in MappedPresent(snap.docinfo) :
            SameUpToNormalization(DOCINFO_MAPPING[i],
                                  snap.docinfo[DOCINFO_MAPPING[i].docinfo_name],
                                  docinfo[DOCINFO_MAPPING[i].docinfo_name])

-----------------------------------------------------------------------------
(* The date codec: datetimes encoded and the encoding decoded.  padYear is   *)
(* the platform's strftime('%Y'): zero-padded to four digits, or not        *)

CodecYears == {999, 2020}
CodecMonths == {2, 12}
CodecDays == {1, 28}
CodecHours == {0, 23}
CodecMinutes == {0, 59}
CodecSeconds == {0, 59}
CodecOffsets == {0, 330, -300, 839}

\* whole-second datetimes: naive, and aware with a whole-minute offset
CodecDates ==
    {DateTime(y, mo, d, h, mi, s, FALSE, 0) :
        y \in CodecYears, mo \in CodecMonths, d \in CodecDays,
        h \in CodecHours, mi \in CodecMinutes, s \in CodecSeconds}
    \cup
    UNION {{DateTime(y, mo, d, h, mi, 0, TRUE, off) :
               y \in CodecYears, mo \in CodecMonths, d \in CodecDays,
               h \in CodecHours, mi \in CodecMinutes} : off \in CodecOffsets}

\* a datetime to encode, on a platform of either kind
InitCodec ==
    /\ InitDocument({NoStream}, {NoInfo}, {TRUE}, {TRUE})
    /\ codec \in {[NoCodec EXCEPT !.stage = "input", !.input = d, !.padYear = p] :
                      d \in CodecDates, p \in BOOLEAN}

\* s = encode_pdf_date(d)
Encode ==
    /\ codec.stage = "input"
    /\ codec' = [codec EXCEPT !.stage = "encoded",
                              !.encoded = encode_pdf_date(codec.input, codec.padYear)]
    /\ UNCHANGED <<xmp, updating, mark, sync_docinfo, stream, docinfo, outcome,
                   snap, nops, ntxn>>

\* decode_pdf_date(s)
Decode ==
    /\ codec.stage = "encoded"
    /\ codec' = [codec EXCEPT !.stage = "decoded",
                              !.decoded = decode_pdf_date(codec.encoded)]
    /\ UNCHANGED <<xmp, updating, mark, sync_docinfo, stream, docinfo, outcome,
                   snap, nops, ntxn>>

NextCodec ==
    \/ Encode
    \/ Decode

SpecCodec == InitCodec /\ [][NextCodec]_vars

\* C9: decode_pdf_date(encode_pdf_date(T)) is T with its offset for an aware
\* T, and T's wall-clock time with offset zero for a naive T
C9_CodecRoundTrip ==
    codec.stage = "decoded"
        => codec.decoded = [ok |-> TRUE, d |-> [codec.input EXCEPT !.aware = TRUE]]

-----------------------------------------------------------------------------
(* load_from_docinfo inside a scope *)

\* what load_from_docinfo promises for the mapping entry e: pre and post are
\* the store before and after the call, v the DocumentInfo value, conv its
\* converted form
LoadKept(pre, post, q) == __getitem__(post, q) = __getitem__(pre, q)

LoadPromise(pre, post, q, v, conv, delete_missing) ==
    IF v = None
    THEN IF delete_missing THEN ~__contains__(post, q).val
         ELSE LoadKept(pre, post, q)
    ELSE IF conv.exc # "none" THEN TRUE
    ELSE IF Truthy(conv.val)
    THEN __getitem__(post, q) = [exc |-> "none", val |-> conv.val]
    ELSE LoadKept(pre, post, q)

LoadPromises(pre, post, di, delete_missing) ==
    \A i \in DOMAIN DOCINFO_MAPPING :
        LoadPromise(pre, post,
                    KeyQName(DOCINFO_MAPPING[i].uri, DOCINFO_MAPPING[i].element),
                    di[DOCINFO_MAPPING[i].docinfo_name],
                    IF di[DOCINFO_MAPPING[i].docinfo_name] = None
                    THEN [exc |-> "none", val |-> PyNone]
                    ELSE XmpFromDocinfo(DOCINFO_MAPPING[i],
                                        di[DOCINFO_MAPPING[i].docinfo_name]),
                    delete_missing)

\* C12: load_from_docinfo inside a scope leaves every mapped XMP key at the
\* converted DocumentInfo value when that is present and non-empty, unchanged
\* when it converts to empty or is absent without delete_missing, and not
\* contained when it is absent with delete_missing
C12_LoadFollowsMapping ==
    [][(updating /\ outcome'.op = "load_from_docinfo")
           => LoadPromises(xmp.rdf, xmp'.rdf, docinfo, outcome'.val.val)]_vars

-----------------------------------------------------------------------------
(* Fields outside the mapping *)

\* one Description with a mapped date and an unmapped date as attributes and
\* an unmapped dc:subject element
DocMixed == Packet(<<
    Description(<< Attr(XMP_NS_XMP, "CreateDate", sIso),
                   Attr(XMP_NS_XMP, "MetadataDate", sIso) >>,
                << Element(QName(XMP_NS_DC, "subject"), sHello, << >>) >>) >>)

ImportStreams == {NoStream, DocMixed}
ImportInfos == {NoInfo, InfoLegacy}

InitImport == InitWith(ImportStreams, ImportInfos, {FALSE}, {TRUE})

SetImport == SetItem(K_MetadataDate, PyStr(sA))
LoadImport == \E delete_missing \in BOOLEAN : LoadFromDocinfo(delete_missing)

NextImport ==
    \/ Enter
    \/ SetImport
    \/ LoadImport
    \/ ExitClean
    \/ ExitRaise

SpecImport == InitImport /\ [][NextImport]_vars

\* XMP names the mapping does not list
UnmappedKeys == {K_subject, K_MetadataDate}

UnmappedKept(pre, post) ==
    \A k \in UnmappedKeys : __getitem__(post, k) = __getitem__(pre, k)

\* C13: the export at commit leaves the DocumentInfo key outside the mapping
\* and the unmapped XMP fields as they were, and load_from_docinfo leaves
\* every unmapped XMP field with the value it had
C13_OnlyMappedFieldsSynced ==
    [][/\ outcome'.op = "exit"
            => (docinfo'["/Trapped"] = docinfo["/Trapped"]
                /\ UnmappedKept(xmp.rdf, xmp'.rdf))
       /\ outcome'.op = "load_from_docinfo"
            => UnmappedKept(ensure_loaded(xmp, stream).rdf,
                            ensure_loaded(xmp', stream').rdf)]_vars

-----------------------------------------------------------------------------
(* Commits that change nothing *)

\* the stream a commit of the tree rdf writes, when the tree can be written
CommitWrites(strm, xml) == xml.exc = "none" => strm = MetadataStream(xml.data)

\* C15: with pikepdf_mark off, the commit of a scope that leaves the tree as
\* it was at entry keeps the tree and writes the serialization of that tree
\* as the metadata stream, so a commit that follows a commit rewrites the
\* stream that is there
C15_NoChangeCommit ==
    [][(outcome'.op = "exit" /\ outcome'.body = "none" /\ ~mark
        /\ xmp.rdf = snap.rdf)
           => /\ xmp'.rdf = snap.rdf
              /\ CommitWrites(stream', _get_xml_bytes(snap.rdf, TRUE))
              /\ (snap.prev = "commit" /\ snap.log = << >>) => stream' = stream]_vars

C15_Witness ==
    /\ CleanExit /\ outcome.exc = "none" /\ ~mark
    /\ ntxn = 2 /\ snap.prev = "commit" /\ snap.log = << >>
    /\ xmp.rdf = snap.rdf /\ xmp.rdf # << >>
    /\ stream.present /\ stream = snap.stream

-----------------------------------------------------------------------------
(* Scopes entered inside scopes *)

NestStreams == {NoStream, DocSmall}

InitNest == InitWith(NestStreams, {NoInfo}, BOOLEAN, {FALSE})

SetNest == SetItem(K_Producer, PyStr(sA))

NextNest ==
    \/ Enter
    \/ EnterNested
    \/ SetNest
    \/ ExitClean
    \/ ExitRaise

SpecNest == InitNest /\ [][NextNest]_vars

\* C16: __enter__ succeeds only when no scope is open, and _updating is on
\* exactly while a scope was entered and is not yet left
C16_EnterOnlyWhenIdle ==
    /\ (outcome.op = "enter" /\ outcome.exc = "none") => ~outcome.upd
    /\ updating <=> snap.depth > 0

-----------------------------------------------------------------------------
(* Keys and reads *)

\* a short name whose prefix PdfMetadata.NS does not hold
K_foreign == KeyShort("foo", "bar")

\* dc:title an element of the first Description and an attribute of the
\* second; dc:creator an attribute and an element of the second; dc:subject
\* with blank text and an empty Bag
DocDup == Packet(<<
    Description(<< >>, << Element(QName(XMP_NS_DC, "title"), sHello, << >>) >>),
    Description(<< Attr(XMP_NS_DC, "title", sOld), Attr(XMP_NS_DC, "creator", sBob) >>,
                << Element(QName(XMP_NS_DC, "creator"), None,
                           << Container("Seq", <<sAlice>>) >>),
                   Element(QName(XMP_NS_DC, "subject"), <<" ">>,
                           << Container("Bag", << >>) >>) >>) >>)

ReadKeys == {K_title, K_creator, K_subject, K_foreign}
ReadValues == {PyStr(<< >>), PyOther, PyList(<<sA>>)}
ReadStreams == {NoStream, DocDup}

InitKeys == InitWith(ReadStreams, {NoInfo}, {FALSE}, {FALSE})

SetKeys == \E key \in ReadKeys, val \in ReadValues : SetItem(key, val)
DelKeys == \E key \in ReadKeys : DelItem(key)
ContainsKeys == \E key \in ReadKeys : Contains(key)
GetKeys == \E key \in ReadKeys : GetItem(key)

NextKeys ==
    \/ Enter
    \/ SetKeys
    \/ DelKeys
    \/ ContainsKeys
    \/ GetKeys
    \/ Length
    \/ PdfaStatus
    \/ PdfxStatus
    \/ Str
    \/ ExitClean

SpecKeys == InitKeys /\ [][NextKeys]_vars

\* a value that is neither a str nor a list of str
NoStringValue(val) ==
    /\ val.kind # "str"
    /\ val.kind = "list" => \E i \in DOMAIN val.val : val.val[i] = NotAStr

\* C14: inside a scope a set of a list on a key whose first match is an
\* attribute, and a set of a value that is neither a str nor a list of str on
\* any key, raises TypeError and leaves the store as it was
C14_SetRejectsBadValues ==
    [][(updating /\ outcome'.op = "set" /\ _qname(outcome'.key).exc = "none"
        /\ (\/ NoStringValue(outcome'.val)
            \/ (outcome'.val.kind = "list"
                /\ FirstIsAttribute(xmp.rdf, outcome'.key))))
           => (outcome'.exc = "TypeError" /\ xmp'.rdf = xmp.rdf)]_vars

\* the call that ended was made with a prefix:local name whose prefix is not
\* registered; set and delete are looked at inside a scope
ForeignCall(o, upd) ==
    /\ o.op \in {"contains", "get", "set", "del"}
    /\ o.key.form = "prefixed" /\ ~NS_has(o.key.a)
    /\ o.op \in {"set", "del"} => upd

\* C17: for a short name with an unregistered prefix, get, and set and delete
\* inside a scope, raise KeyError, contains answers False without an error,
\* and none of them changes the store
C17_UnknownPrefix ==
    [][ForeignCall(outcome', updating)
           => /\ ensure_loaded(xmp', stream').rdf = ensure_loaded(xmp, stream).rdf
              /\ outcome'.op = "contains"
                    => (outcome'.exc = "none" /\ outcome'.val = PyBool(FALSE))
              /\ outcome'.op # "contains" => outcome'.exc = "KeyError"]_vars

C17_Witness ==
    /\ ForeignCall(outcome, updating) /\ outcome.op = "contains"
    /\ outcome.exc = "none" /\ outcome.val = PyBool(FALSE)
    /\ xmp.rdf # << >>

\* C17 as stated: every one of the four operations surfaces the error
C17_EveryOperationRaises ==
    [][ForeignCall(outcome', updating)
           => /\ ensure_loaded(xmp', stream').rdf = ensure_loaded(xmp, stream).rdf
              /\ outcome'.exc = "KeyError"]_vars

ReadOps == {"contains", "get", "len", "pdfa_status", "pdfx_status", "str"}

\* what the first call on a document without metadata stream answers
EmptyAnswer(o) ==
    /\ o.op = "contains" => o.val = PyBool(FALSE)
    /\ o.op = "len" => o.val = [kind |-> "int", val |-> 0]
    /\ o.op = "get" => o.exc = "KeyError"

\* C18: on a document without metadata stream the first call loads an empty
\* store, a loaded session stays loaded, and no read changes the metadata
\* stream, the DocumentInfo or the tree
C18_FirstAccessLoads ==
    [][/\ (~xmp.loaded /\ ~stream.present)
            => (xmp' = [loaded |-> TRUE, rdf |-> << >>] /\ EmptyAnswer(outcome'))
       /\ xmp.loaded => xmp'.loaded
       /\ outcome'.op \in ReadOps
            => /\ stream' = stream
               /\ docinfo' = docinfo
               /\ ensure_loaded(xmp', stream').rdf = ensure_loaded(xmp, stream).rdf]_vars

\* the Description declares the name q, as attribute or as element
Declares(desc, q) ==
    AttrIndex(desc, q) # 0 \/ \E j \in DOMAIN desc.children : desc.children[j].tag = q

FirstIn(S) == CHOOSE d \in S : \A e \in S : d <= e

\* the value a Description gives for q: its attribute, else its first element
DeclaredValue(desc, q) ==
    IF AttrIndex(desc, q) # 0 THEN PyStr(desc.attrib[AttrIndex(desc, q)].value)
    ELSE NodeValue(desc.children[FirstIn({j \in DOMAIN desc.children :
                                              desc.children[j].tag = q})])

Declaring(rdf, q) == {d \in DOMAIN rdf : Declares(rdf[d], q)}
WithAttribute(rdf, q) == {d \in DOMAIN rdf : AttrIndex(rdf[d], q) # 0}

GotName == outcome.op = "get" /\ _qname(outcome.key).exc = "none"

\* C19: get answers with one value, that of the first Description in document
\* order that declares the name, and within that Description the attribute
\* before the elements; KeyError when no Description declares it
C19_FirstMatchWins ==
    GotName =>
        IF Declaring(xmp.rdf, _qname(outcome.key).q) = {}
        THEN outcome.exc = "KeyError"
        ELSE /\ outcome.exc = "none"
             /\ outcome.val =
                  DeclaredValue(xmp.rdf[FirstIn(Declaring(xmp.rdf, _qname(outcome.key).q))],
                                _qname(outcome.key).q)

\* a name declared as element first and as attribute later was read, and
\* one declared as attribute and element of one Description
C19_Witness ==
    /\ GotName /\ outcome.exc = "none"
    /\ WithAttribute(xmp.rdf, _qname(outcome.key).q) # {}
    /\ Cardinality(Declaring(xmp.rdf, _qname(outcome.key).q)) > 1
    /\ FirstIn(Declaring(xmp.rdf, _qname(outcome.key).q))
           \notin WithAttribute(xmp.rdf, _qname(outcome.key).q)

\* C19 as stated: an attribute match is preferred over every element match
C19_AttributePreferred ==
    (GotName /\ WithAttribute(xmp.rdf, _qname(outcome.key).q) # {})
        => outcome.val =
             DeclaredValue(xmp.rdf[FirstIn(WithAttribute(xmp.rdf, _qname(outcome.key).q))],
                           _qname(outcome.key).q)

\* C20: in every store state, for every well-formed key, contains answers
\* True exactly when get returns a value
C20_ContainsAgreesWithGet ==
    xmp.loaded =>
        \A k \in ReadKeys :
            _qname(k).exc = "none" =>
                (__contains__(xmp.rdf, k).val <=> __getitem__(xmp.rdf, k).exc = "none")

-----------------------------------------------------------------------------
(* What a delete leaves alone *)

\* contains and get answer for the key k as they did: pre and post are the
\* store before and after a call
SameAnswers(pre, post, k) ==
    /\ __contains__(post, k) = __contains__(pre, k)
    /\ __getitem__(post, k) = __getitem__(pre, k)

\* the keys of StoreKeys that name another property than key
OtherKeys(key) == {k \in StoreKeys : _qname(k).q # _qname(key).q}

\* C21: inside a scope, a delete of a key without a match raises KeyError and
\* leaves the store as it was; a delete of a key with a match raises nothing
\* and leaves contains and get of every other key as they were
C21_DeleteAffectsOnlyKey ==
    [][(updating /\ outcome'.op = "del" /\ _qname(outcome'.key).exc = "none")
           => IF _get_elements(xmp.rdf, outcome'.key).items = << >>
              THEN outcome'.exc = "KeyError" /\ xmp'.rdf = xmp.rdf
              ELSE /\ outcome'.exc = "none"
                   /\ \A k \in OtherKeys(outcome'.key) :
                          SameAnswers(xmp.rdf, xmp'.rdf, k)]_vars

====
